---------------------------- MODULE Spec2Model ----------------------------
(***************************************************************************)
(* Model of etl/src/conversions/table_row.rs: TableRowConverter::try_from  *)
(* (the COPY TEXT row parser) and the prost::Message implementation of     *)
(* TableRow (encode_raw / encoded_len).                                    *)
(*                                                                         *)
(* Four specifications share the variables:                                *)
(*   Spec        the parser over a small alphabet, any schema              *)
(*   FairSpec    the same over shorter rows, with fairness                 *)
(*   SpecEscape  the parser over the alphabet of the escape table          *)
(*   SpecEncode  encode_raw and encoded_len over arbitrary rows            *)
(***************************************************************************)
EXTENDS Integers, Sequences, FiniteSets, TLC

(***************************************************************************)
(* Bounds                                                                  *)
(***************************************************************************)
MaxRowLen == 4
MaxFairLen == 3
MaxEscLen == 3
MaxCols == 2
MaxCells == 3

(***************************************************************************)
(* Characters the parser compares against or pushes.                       *)
(***************************************************************************)
TAB == 9
LF == 10
BS == 92
CH_N == 78
CH_b == 98
CH_f == 102
CH_n == 110
CH_r == 114
CH_t == 116
CH_v == 118
BACKSPACE == 8
FORMFEED == 12
CR == 13
VTAB == 11

\* Bytes the rows of Spec are made of: tab, line feed, backslash, 'N', '1',
\* and 0xC3 0xA9 (the two bytes of U+00E9; either one alone is invalid UTF-8).
RowAlphabet == {9, 10, 92, 78, 49, 195, 169}

\* Bytes the rows of SpecEscape are made of: every character of the escape
\* table, the delimiters, one plain character and the invalid byte 0xFF.
EscAlphabet == {9, 10, 92, 78, 98, 102, 110, 114, 116, 118, 49, 255}

\* Type tags of the schemas: two the Field Decoder implements, one it does not.
Types == {"int4", "text", "void"}

RECURSIVE SeqsUpTo(_, _)
SeqsUpTo(S, n) ==
    IF n = 0 THEN {<<>>}
    ELSE LET shorter == SeqsUpTo(S, n - 1)
         IN  shorter \cup {Append(s, x) : s \in {t \in shorter : Len(t) = n - 1}, x \in S}

\* A schema gives the column at position i the name i.
SchemaOf(ts) == [i \in 1..Len(ts) |-> [name |-> i, typ |-> ts[i]]]

(***************************************************************************)
(* State                                                                   *)
(***************************************************************************)
VARIABLES
    row,             \* try_from: the input bytes
    column_schemas,  \* try_from: the schema, a sequence of [name, typ]
    pc,              \* try_from: "start", "scan", "field", "returned"; "idle" in SpecEncode
    chars,           \* row_str.chars(): the decoded characters
    pos,             \* number of characters chars.next() has yielded
    val_str,         \* the field buffer
    in_escape,
    row_terminated,
    done,
    values,          \* the cells accumulated so far
    schema_idx,      \* number of entries column_schemas_iter has yielded
    result,          \* what try_from returned
    log,             \* the events written by error!
    decoder_calls,   \* the (typ, text) pairs handed to TextFormatConverter::try_from_str
    self_values,     \* TableRow.values of the row being encoded
    buf,             \* the BufMut encode_raw writes to
    buf0,            \* buf when encode_raw was entered
    enc_pc,          \* encode_raw: "ready", "loop", "returned"
    enc_i,           \* encode_raw: cells the for loop has visited
    enc_tag,
    enc_visits,      \* the (cell, tag) pairs encode_raw passed to encode_prost
    len_pc,          \* encoded_len: "ready", "loop", "returned"
    len_i,
    len_tag,
    len,
    len_result,
    len_visits       \* the (cell, tag) pairs encoded_len passed to encoded_len_prost

parseVars == <<row, column_schemas, pc, chars, pos, val_str, in_escape,
               row_terminated, done, values, schema_idx, result, log,
               decoder_calls>>
encVars == <<buf, buf0, enc_pc, enc_i, enc_tag, enc_visits>>
lenVars == <<len_pc, len_i, len_tag, len, len_result, len_visits>>
vars == <<parseVars, self_values, encVars, lenVars>>

(***************************************************************************)
(* Cells and results                                                       *)
(***************************************************************************)
CellNull(typ) == [kind |-> "Null", typ |-> typ, int |-> 0, str |-> <<>>]
CellI32(n) == [kind |-> "I32", typ |-> "int4", int |-> n, str |-> <<>>]
CellString(s) == [kind |-> "String", typ |-> "text", int |-> 0, str |-> s]

NoResult == [tag |-> "None", err |-> "", inner |-> "", row |-> <<>>]
Ok(vs) == [tag |-> "Ok", err |-> "", inner |-> "", row |-> vs]
Err(e) == [tag |-> "Err", err |-> e, inner |-> "", row |-> <<>>]
\* impl From<FromTextError> for TableRowConversionError, used by e.into()
FromFromTextError(e) == [tag |-> "Err", err |-> "InvalidValue", inner |-> e, row |-> <<>>]

(***************************************************************************)
(* str::from_utf8                                                          *)
(***************************************************************************)
IsCont(b, i) == i <= Len(b) /\ b[i] >= 128 /\ b[i] <= 191

\* Width of the well-formed sequence starting at b[i], 0 if there is none.
Utf8Width(b, i) ==
    LET x == b[i] IN
    IF x < 128 THEN 1
    ELSE IF x >= 194 /\ x <= 223 /\ IsCont(b, i + 1) THEN 2
    ELSE IF x >= 224 /\ x <= 239 /\ IsCont(b, i + 1) /\ IsCont(b, i + 2)
            /\ (x = 224 => b[i + 1] >= 160) /\ (x = 237 => b[i + 1] <= 159) THEN 3
    ELSE IF x >= 240 /\ x <= 244 /\ IsCont(b, i + 1) /\ IsCont(b, i + 2) /\ IsCont(b, i + 3)
            /\ (x = 240 => b[i + 1] >= 144) /\ (x = 244 => b[i + 1] <= 143) THEN 4
    ELSE 0

Utf8CodePoint(b, i, w) ==
    IF w = 1 THEN b[i]
    ELSE IF w = 2 THEN (b[i] - 192) * 64 + (b[i + 1] - 128)
    ELSE IF w = 3 THEN (b[i] - 224) * 4096 + (b[i + 1] - 128) * 64 + (b[i + 2] - 128)
    ELSE (b[i] - 240) * 262144 + (b[i + 1] - 128) * 4096 + (b[i + 2] - 128) * 64 + (b[i + 3] - 128)

RECURSIVE Utf8From(_, _)
\* The characters of b[i..], or <<-1>> appended where the bytes are malformed.
Utf8From(b, i) ==
    IF i > Len(b) THEN <<>>
    ELSE LET w == Utf8Width(b, i)
         IN  IF w = 0 THEN <<-1>>
             ELSE <<Utf8CodePoint(b, i, w)>> \o Utf8From(b, i + w)

Utf8Valid(b) == \A k \in DOMAIN Utf8From(b, 1) : Utf8From(b, 1)[k] # -1

(***************************************************************************)
(* TextFormatConverter::try_from_str (the Field Decoder)                   *)
(***************************************************************************)
IsDigit(c) == c >= 48 /\ c <= 57

RECURSIVE DecimalValue(_)
DecimalValue(s) ==
    IF s = <<>> THEN 0
    ELSE DecimalValue(SubSeq(s, 1, Len(s) - 1)) * 10 + (s[Len(s)] - 48)

DecodeOk(cell) == [ok |-> TRUE, cell |-> cell, err |-> ""]
DecodeErr(e) == [ok |-> FALSE, cell |-> CellNull("void"), err |-> e]

try_from_str(typ, s) ==
    IF typ = "text" THEN DecodeOk(CellString(s))
    ELSE IF typ = "int4"
         THEN IF s # <<>> /\ \A k \in DOMAIN s : IsDigit(s[k])
              THEN DecodeOk(CellI32(DecimalValue(s)))
              ELSE DecodeErr("InvalidInt")
    ELSE DecodeErr("UnsupportedType")

(***************************************************************************)
(* TableRowConverter::try_from                                             *)
(***************************************************************************)
\* EscapeChar without the branch for 'v': the character is taken literally.
EscapeChar_NoVtab(c) ==
    IF c = CH_N THEN <<BS, c>>
    ELSE IF c = CH_b THEN <<BACKSPACE>>
    ELSE IF c = CH_f THEN <<FORMFEED>>
    ELSE IF c = CH_n THEN <<LF>>
    ELSE IF c = CH_r THEN <<CR>>
    ELSE IF c = CH_t THEN <<TAB>>
    ELSE <<c>>

\* The character pushed for the character c that follows a backslash, as a
\* sequence (backslash-N pushes two characters).
EscapeChar(c) ==
    IF c = CH_N THEN <<BS, c>>
    ELSE IF c = CH_b THEN <<BACKSPACE>>
    ELSE IF c = CH_f THEN <<FORMFEED>>
    ELSE IF c = CH_n THEN <<LF>>
    ELSE IF c = CH_r THEN <<CR>>
    ELSE IF c = CH_t THEN <<TAB>>
    ELSE IF c = CH_v THEN <<VTAB>>
    ELSE <<c>>

\* IsNullText as an ends-with test instead of equality.
IsNullText_Suffix(s) == Len(s) >= 2 /\ SubSeq(s, Len(s) - 1, Len(s)) = <<BS, CH_N>>

\* val_str == "\\N"
IsNullText(s) == s = <<BS, CH_N>>

HasNextChar == pos < Len(chars)
NextChar == chars[pos + 1]

encIdle == UNCHANGED <<self_values, encVars, lenVars>>

\* let row_str = str::from_utf8(row)?  -- the bytes are not valid UTF-8
FromUtf8Invalid ==
    /\ pc = "start"
    /\ ~Utf8Valid(row)
    /\ result' = Err("InvalidString")
    /\ pc' = "returned"
    /\ UNCHANGED <<row, column_schemas, chars, pos, val_str, in_escape,
                   row_terminated, done, values, schema_idx, log, decoder_calls>>
    /\ encIdle

\* str::from_utf8(row) succeeds; the iterators and flags are initialised
FromUtf8Valid ==
    /\ pc = "start"
    /\ Utf8Valid(row)
    /\ chars' = Utf8From(row, 1)
    /\ pos' = 0
    /\ val_str' = <<>>
    /\ in_escape' = FALSE
    /\ row_terminated' = FALSE
    /\ done' = FALSE
    /\ values' = <<>>
    /\ schema_idx' = 0
    /\ pc' = "scan"
    /\ UNCHANGED <<row, column_schemas, result, log, decoder_calls>>
    /\ encIdle

scanKeeps == UNCHANGED <<row, column_schemas, chars, values, schema_idx,
                         result, log, decoder_calls>>

\* Some(c) if in_escape
ScanEscaped ==
    /\ pc = "scan"
    /\ HasNextChar
    /\ in_escape
    /\ val_str' = val_str \o EscapeChar(NextChar)
    /\ in_escape' = FALSE
    /\ pos' = pos + 1
    /\ UNCHANGED <<pc, row_terminated, done>>
    /\ scanKeeps
    /\ encIdle

\* Some('\t') => break
ScanTab ==
    /\ pc = "scan"
    /\ HasNextChar
    /\ ~in_escape
    /\ NextChar = TAB
    /\ pos' = pos + 1
    /\ pc' = "field"
    /\ UNCHANGED <<val_str, in_escape, row_terminated, done>>
    /\ scanKeeps
    /\ encIdle

\* Some('\n') => row_terminated = true; break
ScanLineFeed ==
    /\ pc = "scan"
    /\ HasNextChar
    /\ ~in_escape
    /\ NextChar = LF
    /\ row_terminated' = TRUE
    /\ pos' = pos + 1
    /\ pc' = "field"
    /\ UNCHANGED <<val_str, in_escape, done>>
    /\ scanKeeps
    /\ encIdle

\* ScanBackslash that sets the flag without consuming the backslash.
ScanBackslash_NoAdvance ==
    /\ pc = "scan"
    /\ pos < Len(chars)
    /\ ~in_escape
    /\ chars[pos + 1] = BS
    /\ in_escape' = TRUE
    /\ UNCHANGED <<pos, pc, val_str, row_terminated, done>>
    /\ UNCHANGED <<row, column_schemas, chars, values, schema_idx, result, log,
                   decoder_calls>>
    /\ UNCHANGED <<self_values, buf, buf0, enc_pc, enc_i, enc_tag, enc_visits,
                   len_pc, len_i, len_tag, len, len_result, len_visits>>

\* Some('\\') => in_escape = true
ScanBackslash ==
    /\ pc = "scan"
    /\ HasNextChar
    /\ ~in_escape
    /\ NextChar = BS
    /\ in_escape' = TRUE
    /\ pos' = pos + 1
    /\ UNCHANGED <<pc, val_str, row_terminated, done>>
    /\ scanKeeps
    /\ encIdle

\* Some(c) => val_str.push(c)
ScanOther ==
    /\ pc = "scan"
    /\ HasNextChar
    /\ ~in_escape
    /\ NextChar \notin {TAB, LF, BS}
    /\ val_str' = Append(val_str, NextChar)
    /\ pos' = pos + 1
    /\ UNCHANGED <<pc, in_escape, row_terminated, done>>
    /\ scanKeeps
    /\ encIdle

\* ScanEndUnterminated without the row_terminated test: the values so far
\* are returned as a row.
ScanEndUnterminated_Ok ==
    /\ pc = "scan"
    /\ pos >= Len(chars)
    /\ ~row_terminated
    /\ done' = TRUE
    /\ result' = Ok(values)
    /\ pc' = "returned"
    /\ UNCHANGED <<row, column_schemas, chars, pos, val_str, in_escape,
                   row_terminated, values, schema_idx, log, decoder_calls>>
    /\ UNCHANGED <<self_values, buf, buf0, enc_pc, enc_i, enc_tag, enc_visits,
                   len_pc, len_i, len_tag, len, len_result, len_visits>>

\* None, !row_terminated => return Err(UnterminatedRow)
ScanEndUnterminated ==
    /\ pc = "scan"
    /\ ~HasNextChar
    /\ ~row_terminated
    /\ result' = Err("UnterminatedRow")
    /\ pc' = "returned"
    /\ UNCHANGED <<row, column_schemas, chars, pos, val_str, in_escape,
                   row_terminated, done, values, schema_idx, log, decoder_calls>>
    /\ encIdle

\* None, row_terminated => done = true; break; the field block is skipped,
\* the while loop ends and Ok(TableRow { values }) is returned
ScanEndDone ==
    /\ pc = "scan"
    /\ ~HasNextChar
    /\ row_terminated
    /\ done' = TRUE
    /\ result' = Ok(values)
    /\ pc' = "returned"
    /\ UNCHANGED <<row, column_schemas, chars, pos, val_str, in_escape,
                   row_terminated, values, schema_idx, log, decoder_calls>>
    /\ encIdle

fieldKeeps == UNCHANGED <<row, column_schemas, chars, pos, in_escape,
                          row_terminated, done>>

\* FieldNoColumn that drops a field without a column and goes on scanning.
FieldNoColumn_Skip ==
    /\ pc = "field"
    /\ schema_idx >= Len(column_schemas)
    /\ val_str' = <<>>
    /\ pc' = "scan"
    /\ UNCHANGED <<result, values, schema_idx, log, decoder_calls>>
    /\ UNCHANGED <<row, column_schemas, chars, pos, in_escape, row_terminated, done>>
    /\ UNCHANGED <<self_values, buf, buf0, enc_pc, enc_i, enc_tag, enc_visits,
                   len_pc, len_i, len_tag, len, len_result, len_visits>>

\* column_schemas_iter.next() is None => return Err(NumColsMismatch)
FieldNoColumn ==
    /\ pc = "field"
    /\ schema_idx >= Len(column_schemas)
    /\ result' = Err("NumColsMismatch")
    /\ pc' = "returned"
    /\ UNCHANGED <<val_str, values, schema_idx, log, decoder_calls>>
    /\ fieldKeeps
    /\ encIdle

\* val_str == "\\N" => Cell::Null(column_schema.typ.clone())
FieldNull ==
    /\ pc = "field"
    /\ schema_idx < Len(column_schemas)
    /\ IsNullText(val_str)
    /\ values' = Append(values, CellNull(column_schemas[schema_idx + 1].typ))
    /\ schema_idx' = schema_idx + 1
    /\ val_str' = <<>>
    /\ pc' = "scan"
    /\ UNCHANGED <<result, log, decoder_calls>>
    /\ fieldKeeps
    /\ encIdle

\* try_from_str(&column_schema.typ, &val_str) is Ok(value)
FieldDecoded ==
    /\ pc = "field"
    /\ schema_idx < Len(column_schemas)
    /\ ~IsNullText(val_str)
    /\ LET column_schema == column_schemas[schema_idx + 1]
           r == try_from_str(column_schema.typ, val_str)
       IN  /\ r.ok
           /\ values' = Append(values, r.cell)
           /\ decoder_calls' = Append(decoder_calls, <<column_schema.typ, val_str>>)
    /\ schema_idx' = schema_idx + 1
    /\ val_str' = <<>>
    /\ pc' = "scan"
    /\ UNCHANGED <<result, log>>
    /\ fieldKeeps
    /\ encIdle

\* FieldDecodeError without the error! event.
FieldDecodeError_NoLog ==
    /\ pc = "field"
    /\ schema_idx < Len(column_schemas)
    /\ ~IsNullText(val_str)
    /\ LET column_schema == column_schemas[schema_idx + 1]
           r == try_from_str(column_schema.typ, val_str)
       IN  /\ ~r.ok
           /\ decoder_calls' = Append(decoder_calls, <<column_schema.typ, val_str>>)
           /\ result' = FromFromTextError(r.err)
    /\ schema_idx' = schema_idx + 1
    /\ pc' = "returned"
    /\ UNCHANGED <<val_str, values, log>>
    /\ UNCHANGED <<row, column_schemas, chars, pos, in_escape, row_terminated, done>>
    /\ UNCHANGED <<self_values, buf, buf0, enc_pc, enc_i, enc_tag, enc_visits,
                   len_pc, len_i, len_tag, len, len_result, len_visits>>

\* try_from_str(..) is Err(e) => error!(..); return Err(e.into())
FieldDecodeError ==
    /\ pc = "field"
    /\ schema_idx < Len(column_schemas)
    /\ ~IsNullText(val_str)
    /\ LET column_schema == column_schemas[schema_idx + 1]
           r == try_from_str(column_schema.typ, val_str)
       IN  /\ ~r.ok
           /\ decoder_calls' = Append(decoder_calls, <<column_schema.typ, val_str>>)
           /\ log' = Append(log, [name |-> column_schema.name,
                                  typ |-> column_schema.typ,
                                  text |-> val_str])
           /\ result' = FromFromTextError(r.err)
    /\ schema_idx' = schema_idx + 1
    /\ pc' = "returned"
    /\ UNCHANGED <<val_str, values>>
    /\ fieldKeeps
    /\ encIdle

ParseNext ==
    \/ FromUtf8Invalid
    \/ FromUtf8Valid
    \/ ScanEscaped
    \/ ScanTab
    \/ ScanLineFeed
    \/ ScanBackslash
    \/ ScanOther
    \/ ScanEndUnterminated
    \/ ScanEndDone
    \/ FieldNoColumn
    \/ FieldNull
    \/ FieldDecoded
    \/ FieldDecodeError

\* The state of a call of try_from(r, s) on entry; the encoder is idle.
InitParse(r, s) ==
    /\ row = r
    /\ column_schemas = s
    /\ pc = "start"
    /\ chars = <<>>
    /\ pos = 0
    /\ val_str = <<>>
    /\ in_escape = FALSE
    /\ row_terminated = FALSE
    /\ done = FALSE
    /\ values = <<>>
    /\ schema_idx = 0
    /\ result = NoResult
    /\ log = <<>>
    /\ decoder_calls = <<>>
    /\ self_values = <<>>
    /\ buf = <<>>
    /\ buf0 = <<>>
    /\ enc_pc = "idle"
    /\ enc_i = 0
    /\ enc_tag = 0
    /\ enc_visits = <<>>
    /\ len_pc = "idle"
    /\ len_i = 0
    /\ len_tag = 0
    /\ len = 0
    /\ len_result = 0
    /\ len_visits = <<>>

Schemas == {SchemaOf(ts) : ts \in SeqsUpTo(Types, MaxCols)}

Init ==
    \E r \in SeqsUpTo(RowAlphabet, MaxRowLen), s \in Schemas : InitParse(r, s)

Next == ParseNext

Spec == Init /\ [][Next]_vars

\* try_from is a synchronous call: a running call keeps stepping.  The rows
\* of FairSpec are shorter, to keep the check of termination small.
InitFair ==
    \E r \in SeqsUpTo(RowAlphabet, MaxFairLen), s \in Schemas : InitParse(r, s)

FairSpec == InitFair /\ [][Next]_vars /\ WF_vars(Next)

InitEscape ==
    \E r \in SeqsUpTo(EscAlphabet, MaxEscLen),
       s \in {SchemaOf(ts) : ts \in SeqsUpTo({"int4", "text"}, MaxCols)} : InitParse(r, s)

SpecEscape == InitEscape /\ [][Next]_vars

(***************************************************************************)
(* Cell::encode_prost and Cell::encoded_len_prost (protobuf field framing) *)
(***************************************************************************)
RECURSIVE Varint(_)
Varint(n) == IF n < 128 THEN <<n>> ELSE <<128 + (n % 128)>> \o Varint(n \div 128)

RECURSIVE VarintLen(_)
VarintLen(n) == IF n < 128 THEN 1 ELSE 1 + VarintLen(n \div 128)

Utf8Bytes(c) ==
    IF c < 128 THEN <<c>>
    ELSE IF c < 2048 THEN <<192 + (c \div 64), 128 + (c % 64)>>
    ELSE <<224 + (c \div 4096), 128 + ((c \div 64) % 64), 128 + (c % 64)>>

Utf8Len(c) == IF c < 128 THEN 1 ELSE IF c < 2048 THEN 2 ELSE 3

RECURSIVE StrBytes(_)
StrBytes(s) == IF s = <<>> THEN <<>> ELSE Utf8Bytes(Head(s)) \o StrBytes(Tail(s))

RECURSIVE StrLen(_)
StrLen(s) == IF s = <<>> THEN 0 ELSE Utf8Len(Head(s)) + StrLen(Tail(s))

\* The bytes cell.encode_prost(tag, buf) appends: nothing for Null, a varint
\* field for I32, a length-delimited field for String.
encode_prost(cell, tag) ==
    IF cell.kind = "Null" THEN <<>>
    ELSE IF cell.kind = "I32" THEN Varint(tag * 8) \o Varint(cell.int)
    ELSE Varint(tag * 8 + 2) \o Varint(StrLen(cell.str)) \o StrBytes(cell.str)

encoded_len_prost(cell, tag) ==
    IF cell.kind = "Null" THEN 0
    ELSE IF cell.kind = "I32" THEN VarintLen(tag * 8) + VarintLen(cell.int)
    ELSE VarintLen(tag * 8 + 2) + VarintLen(StrLen(cell.str)) + StrLen(cell.str)

(***************************************************************************)
(* impl prost::Message for TableRow                                        *)
(***************************************************************************)
parseIdle == UNCHANGED parseVars

\* EncodeRawCall with the tag starting at 0.
EncodeRawCall_TagZero ==
    /\ enc_pc = "ready"
    /\ enc_pc' = "loop"
    /\ enc_tag' = 0
    /\ enc_i' = 0
    /\ buf0' = buf
    /\ UNCHANGED <<buf, enc_visits, self_values, lenVars>>
    /\ parseIdle

\* encode_raw is entered: let mut tag = 1
EncodeRawCall ==
    /\ enc_pc = "ready"
    /\ enc_pc' = "loop"
    /\ enc_tag' = 1
    /\ enc_i' = 0
    /\ buf0' = buf
    /\ UNCHANGED <<buf, enc_visits, self_values, lenVars>>
    /\ parseIdle

\* one iteration of for cell in &self.values: encode_prost; tag += 1
EncodeRawStep ==
    /\ enc_pc = "loop"
    /\ enc_i < Len(self_values)
    /\ LET cell == self_values[enc_i + 1]
       IN  /\ buf' = buf \o encode_prost(cell, enc_tag)
           /\ enc_visits' = Append(enc_visits, <<cell, enc_tag>>)
    /\ enc_tag' = enc_tag + 1
    /\ enc_i' = enc_i + 1
    /\ UNCHANGED <<buf0, enc_pc, self_values, lenVars>>
    /\ parseIdle

\* the for loop of encode_raw is exhausted
EncodeRawReturn ==
    /\ enc_pc = "loop"
    /\ enc_i >= Len(self_values)
    /\ enc_pc' = "returned"
    /\ UNCHANGED <<buf, buf0, enc_i, enc_tag, enc_visits, self_values, lenVars>>
    /\ parseIdle

\* encoded_len is entered: let mut len = 0; let mut tag = 1
EncodedLenCall ==
    /\ len_pc = "ready"
    /\ len_pc' = "loop"
    /\ len' = 0
    /\ len_tag' = 1
    /\ len_i' = 0
    /\ UNCHANGED <<len_result, len_visits, self_values, encVars>>
    /\ parseIdle

\* EncodedLenStep with len assigned instead of accumulated.
EncodedLenStep_Assign ==
    /\ len_pc = "loop"
    /\ len_i < Len(self_values)
    /\ LET cell == self_values[len_i + 1]
       IN  /\ len' = encoded_len_prost(cell, len_tag)
           /\ len_visits' = Append(len_visits, <<cell, len_tag>>)
    /\ len_tag' = len_tag + 1
    /\ len_i' = len_i + 1
    /\ UNCHANGED <<len_pc, len_result, self_values, encVars>>
    /\ parseIdle

\* one iteration of for cell in &self.values: len += encoded_len_prost; tag += 1
EncodedLenStep ==
    /\ len_pc = "loop"
    /\ len_i < Len(self_values)
    /\ LET cell == self_values[len_i + 1]
       IN  /\ len' = len + encoded_len_prost(cell, len_tag)
           /\ len_visits' = Append(len_visits, <<cell, len_tag>>)
    /\ len_tag' = len_tag + 1
    /\ len_i' = len_i + 1
    /\ UNCHANGED <<len_pc, len_result, self_values, encVars>>
    /\ parseIdle

\* the for loop of encoded_len is exhausted: len is returned
EncodedLenReturn ==
    /\ len_pc = "loop"
    /\ len_i >= Len(self_values)
    /\ len_result' = len
    /\ len_pc' = "returned"
    /\ UNCHANGED <<len, len_i, len_tag, len_visits, self_values, encVars>>
    /\ parseIdle

EncodeNext ==
    \/ EncodeRawCall
    \/ EncodeRawStep
    \/ EncodeRawReturn
    \/ EncodedLenCall
    \/ EncodedLenStep
    \/ EncodedLenReturn

\* The cells the rows of SpecEncode are made of.
EncCells ==
    {CellNull("int4"), CellNull("text"), CellI32(1), CellI32(300),
     CellString(<<>>), CellString(<<49, 233>>)}

\* Bytes the buffer may already hold when encode_raw is entered.
InitBufs == {<<>>, <<7>>}

InitEncode ==
    /\ self_values \in SeqsUpTo(EncCells, MaxCells)
    /\ buf \in InitBufs
    /\ buf0 = <<>>
    /\ enc_pc = "ready"
    /\ enc_i = 0
    /\ enc_tag = 0
    /\ enc_visits = <<>>
    /\ len_pc = "ready"
    /\ len_i = 0
    /\ len_tag = 0
    /\ len = 0
    /\ len_result = 0
    /\ len_visits = <<>>
    /\ row = <<>>
    /\ column_schemas = <<>>
    /\ pc = "idle"
    /\ chars = <<>>
    /\ pos = 0
    /\ val_str = <<>>
    /\ in_escape = FALSE
    /\ row_terminated = FALSE
    /\ done = FALSE
    /\ values = <<>>
    /\ schema_idx = 0
    /\ result = NoResult
    /\ log = <<>>
    /\ decoder_calls = <<>>

SpecEncode == InitEncode /\ [][EncodeNext]_vars

(***************************************************************************)
(* The COPY TEXT grammar, stated on the whole character sequence.  These   *)
(* definitions are what the properties below compare the parser with.      *)
(***************************************************************************)
RECURSIVE Escaped(_, _)
\* s[i] is preceded by an odd number of consecutive backslashes.
Escaped(s, i) == i > 1 /\ s[i - 1] = BS /\ ~Escaped(s, i - 1)

Delims(s) == {i \in 1..Len(s) : s[i] \in {TAB, LF} /\ ~Escaped(s, i)}
UnescapedLFs(s) == {i \in Delims(s) : s[i] = LF}
NumFields(s) == Cardinality(Delims(s))

\* The position of the k-th field delimiter, 0 for k = 0.
NthDelim(s, k) ==
    IF k = 0 THEN 0
    ELSE CHOOSE i \in Delims(s) : Cardinality({j \in Delims(s) : j <= i}) = k

RawField(s, k) == SubSeq(s, NthDelim(s, k - 1) + 1, NthDelim(s, k) - 1)

GrammarEscape(c) ==
    CASE c = 98 -> <<8>>
      [] c = 102 -> <<12>>
      [] c = 110 -> <<10>>
      [] c = 114 -> <<13>>
      [] c = 116 -> <<9>>
      [] c = 118 -> <<11>>
      [] c = 78 -> <<92, 78>>
      [] OTHER -> <<c>>

RECURSIVE Unescape(_)
Unescape(r) ==
    IF r = <<>> THEN <<>>
    ELSE IF Head(r) # BS THEN <<Head(r)>> \o Unescape(Tail(r))
    ELSE IF Len(r) = 1 THEN <<>>
    ELSE GrammarEscape(r[2]) \o Unescape(SubSeq(r, 3, Len(r)))

FieldText(s, k) == Unescape(RawField(s, k))
NullSentinel == <<92, 78>>

\* The k-th field is the NULL sentinel or text the Field Decoder accepts for
\* the k-th column.
FieldAccepted(s, cs, k) ==
    \/ FieldText(s, k) = NullSentinel
    \/ try_from_str(cs[k].typ, FieldText(s, k)).ok

RECURSIVE ExpectedCalls(_, _, _)
\* The decoder calls for the first n fields: one per field that is not NULL.
ExpectedCalls(s, cs, n) ==
    IF n = 0 THEN <<>>
    ELSE ExpectedCalls(s, cs, n - 1) \o
         (IF FieldText(s, n) = NullSentinel THEN <<>>
          ELSE <<<<cs[n].typ, FieldText(s, n)>>>>)

Returned == pc = "returned"
ReturnedRow == pc = "returned" /\ result.tag = "Ok"
Parsed == pc = "returned" /\ Utf8Valid(row)

(***************************************************************************)
(* C1. Row-length invariant: whenever try_from returns Ok(row), the row    *)
(* has exactly as many values as column_schemas has entries.               *)
(* Refuted: a terminated record with fewer fields than columns is returned *)
(* as a short row.                                                         *)
(***************************************************************************)
C1_RowLengthInvariant ==
    ReturnedRow => Len(result.row) = Len(column_schemas)

(***************************************************************************)
(* C2. A record terminated by its only unescaped line feed, with fewer     *)
(* tab-delimited fields than the schema has columns and every present      *)
(* field accepted, makes try_from return NumColsMismatch.                  *)
(* Refuted: try_from returns Ok with the short row.                        *)
(***************************************************************************)
C2_FewerFieldsMismatch ==
    (/\ Parsed
     /\ UnescapedLFs(chars) = {Len(chars)}
     /\ NumFields(chars) < Len(column_schemas)
     /\ \A k \in 1..NumFields(chars) : FieldAccepted(chars, column_schemas, k))
    => result = Err("NumColsMismatch")

(***************************************************************************)
(* C3. When more fields are delimited than the schema has columns and the  *)
(* fields that have a column were all accepted, try_from returns           *)
(* NumColsMismatch; exactly one value per column was accumulated and the   *)
(* decoder saw only the fields that have a column, never the surplus one.  *)
(***************************************************************************)
C3_SurplusFieldMismatch ==
    (/\ Parsed
     /\ NumFields(chars) > Len(column_schemas)
     /\ \A k \in 1..Len(column_schemas) : FieldAccepted(chars, column_schemas, k))
    => /\ result = Err("NumColsMismatch")
       /\ Len(values) = Len(column_schemas)
       /\ decoder_calls = ExpectedCalls(chars, column_schemas, Len(column_schemas))

C3_Witness ==
    /\ Parsed
    /\ Len(column_schemas) = 1
    /\ NumFields(chars) = 2
    /\ Len(decoder_calls) = 1
    /\ result = Err("NumColsMismatch")

(***************************************************************************)
(* C4. When the input holds no unescaped line feed and every field         *)
(* delimited in it was accepted (it had a column and decoded), try_from    *)
(* returns UnterminatedRow; this covers the empty input and an input whose *)
(* only line feed follows a backslash.                                     *)
(***************************************************************************)
C4_UnterminatedRow ==
    (/\ Parsed
     /\ UnescapedLFs(chars) = {}
     /\ NumFields(chars) <= Len(column_schemas)
     /\ \A k \in 1..NumFields(chars) : FieldAccepted(chars, column_schemas, k))
    => result = Err("UnterminatedRow")

C4_Witness ==
    /\ Parsed
    /\ \E i \in 1..Len(chars) : chars[i] = LF
    /\ UnescapedLFs(chars) = {}
    /\ NumFields(chars) = 1
    /\ Len(values) = 1
    /\ result = Err("UnterminatedRow")

(***************************************************************************)
(* C5. In a returned row the i-th value belongs to the i-th field and the  *)
(* i-th column: it is Null carrying the column's type exactly when the     *)
(* field's unescaped text is backslash-N, and otherwise it is the decoder's*)
(* result for the column's type and the field's unescaped text.            *)
(***************************************************************************)
C5_LockstepConversion ==
    ReturnedRow =>
        /\ Len(result.row) <= Len(column_schemas)
        /\ Len(result.row) <= NumFields(chars)
        /\ \A i \in 1..Len(result.row) :
              LET text == FieldText(chars, i)
                  typ == column_schemas[i].typ
              IN  /\ (result.row[i].kind = "Null") <=> (text = NullSentinel)
                  /\ text = NullSentinel => result.row[i] = CellNull(typ)
                  /\ text # NullSentinel =>
                        /\ try_from_str(typ, text).ok
                        /\ result.row[i] = try_from_str(typ, text).cell

\* A row whose first field is the raw text backslash-backslash-N (Null), and
\* one whose first field merely contains backslash-N (decoded as text).
C5_Witness ==
    /\ ReturnedRow
    /\ Len(result.row) = 1
    /\ \/ RawField(chars, 1) = <<92, 92, 78>> /\ result.row[1] = CellNull("int4")
       \/ RawField(chars, 1) = <<49, 92, 78>> /\ result.row[1] = CellString(<<49, 92, 78>>)

(***************************************************************************)
(* C6. Escape decoding, one scan step at a time: after a backslash, b f n  *)
(* r t v append 0x08 0x0C 0x0A 0x0D 0x09 0x0B, N appends backslash and N,  *)
(* any other character (a backslash, a tab, a line feed included) is       *)
(* appended unchanged, and that step neither delimits a field nor          *)
(* terminates the record; an unescaped character other than tab, line feed *)
(* and backslash is appended unchanged.                                    *)
(***************************************************************************)
C6_EscapeDecoding ==
    [][(pc = "scan" /\ pos < Len(chars)) =>
         LET c == chars[pos + 1]
         IN  IF in_escape
             THEN /\ val_str' = val_str \o GrammarEscape(c)
                  /\ ~in_escape'
                  /\ pc' = "scan"
                  /\ row_terminated' = row_terminated
                  /\ values' = values
             ELSE IF c \notin {TAB, LF, BS}
             THEN val_str' = Append(val_str, c) /\ pc' = "scan"
             ELSE val_str' = val_str]_vars

\* The step for backslash-v has been taken.
C6_Witness ==
    /\ pc = "scan"
    /\ pos = 2
    /\ chars[1] = 92
    /\ chars[2] = 118
    /\ val_str = <<11>>

(***************************************************************************)
(* C7. Whenever the Field Decoder is handed a column whose type it does    *)
(* not implement, try_from returns the UnsupportedType error kind (not     *)
(* InvalidValue) and no row.                                               *)
(* Refuted: the decoder's error is converted by e.into(), which yields     *)
(* InvalidValue.                                                           *)
(***************************************************************************)
C7_UnsupportedTypeKind ==
    (/\ Returned
     /\ decoder_calls # <<>>
     /\ decoder_calls[Len(decoder_calls)][1] = "void")
    => /\ result.tag = "Err"
       /\ result.err = "UnsupportedType"
       /\ result.row = <<>>

(***************************************************************************)
(* C8. encoded_len returns the number of bytes encode_raw appends: when    *)
(* both have returned, they passed the same cells with the same tags in    *)
(* the same order to the cell's two operations, the length returned is the *)
(* growth of the buffer, and no step of encoded_len changes the buffer.    *)
(***************************************************************************)
C8_EncodedLenMatches ==
    /\ []((enc_pc = "returned" /\ len_pc = "returned") =>
            /\ len_visits = enc_visits
            /\ len_result = Len(buf) - Len(buf0))
    /\ [][(len_pc' # len_pc \/ len_visits' # len_visits) => buf' = buf]_vars

C8_Witness ==
    /\ enc_pc = "returned"
    /\ len_pc = "returned"
    /\ Len(self_values) = 3
    /\ self_values[2].kind = "Null"
    /\ self_values[3].kind = "String"
    /\ len_result > 0
    /\ buf0 # <<>>

(***************************************************************************)
(* C9. encode_raw passes every cell exactly once, in column order, to      *)
(* encode_prost, the cell at 0-based position i with tag i + 1 (Null cells *)
(* take their positional tag too), and never changes the row.              *)
(***************************************************************************)
C9_SequentialTags ==
    /\ [](enc_pc = "returned" =>
            enc_visits = [i \in 1..Len(self_values) |-> <<self_values[i], i>>])
    /\ [](enc_pc = "loop" =>
            enc_visits = [i \in 1..enc_i |-> <<self_values[i], i>>])
    /\ [][self_values' = self_values]_vars

C9_Witness ==
    /\ enc_pc = "returned"
    /\ Len(enc_visits) = 3
    /\ enc_visits[1][1].kind = "Null"
    /\ enc_visits[2] = <<CellI32(300), 2>>
    /\ enc_visits[3][2] = 3

(***************************************************************************)
(* C10. Totality: try_from always returns, and what it returns is a row or *)
(* one of InvalidString, NumColsMismatch, UnterminatedRow or the Field     *)
(* Decoder's error; an error carries no row.  Every scan step consumes one *)
(* character or ends the parse, every step lowers a bounded measure of the *)
(* remaining work, and a call that has not returned can always step.       *)
(***************************************************************************)
ErrorKinds == {"InvalidString", "NumColsMismatch", "UnterminatedRow", "InvalidValue"}

Outcome ==
    IF pc = "returned"
    THEN \/ result.tag = "Ok" /\ result.err = "" /\ result.row = values
         \/ result.tag = "Err" /\ result.err \in ErrorKinds /\ result.row = <<>>
            /\ (result.inner # "" <=> result.err = "InvalidValue")
    ELSE result = NoResult

\* Twice the characters left, plus the steps owed at the current position.
Measure ==
    IF pc = "start" THEN 2 * Len(row) + 3
    ELSE IF pc = "returned" THEN 0
    ELSE 2 * (Len(chars) - pos) + (IF pc = "field" THEN 2 ELSE 1)

C10_Totality ==
    /\ [](Outcome /\ pos <= Len(chars) /\ (pc # "returned" => ENABLED Next))
    /\ [][pc = "scan" => (pos' = pos + 1 \/ pc' = "returned")]_vars
    /\ [][Measure' < Measure /\ Measure' >= 0]_vars
    /\ <>(pc = "returned")

\* A call that ended with the decoder's error before the input was read to
\* its end, after one field had been accepted.
C10_Witness ==
    /\ Returned
    /\ result.err = "InvalidValue"
    /\ result.inner = "InvalidInt"
    /\ Len(values) = 1
    /\ pos < Len(chars)

(***************************************************************************)
(* C11. A record ends at its first unescaped line feed: a returned row has *)
(* one value per field delimited up to and including that line feed, and   *)
(* the characters after it add no value to the row.                        *)
(* Refuted: scanning goes on after the line feed, and every field          *)
(* delimited after it is converted and appended to the same row.           *)
(***************************************************************************)
FirstLF(s) == CHOOSE i \in UnescapedLFs(s) : \A j \in UnescapedLFs(s) : i <= j
FieldsOfFirstRecord(s) == Cardinality({d \in Delims(s) : d <= FirstLF(s)})

C11_RecordEndsAtFirstLineFeed ==
    ReturnedRow =>
        /\ UnescapedLFs(chars) # {}
        /\ Len(result.row) = FieldsOfFirstRecord(chars)

(***************************************************************************)
(* C12. When the Field Decoder rejects a field, try_from has written one   *)
(* error event naming the column's name, its type and the field's unescaped*)
(* text by the time the error is returned; it stops at that first failing  *)
(* field, so the decoder sees no later field, and the decoder's error is   *)
(* what is returned, not a later NumColsMismatch or UnterminatedRow.  No   *)
(* state before the return holds a rejected call or an event.              *)
(***************************************************************************)
\* The k-th field has a column, is not NULL and is rejected by the decoder,
\* and every field before it was accepted.
FirstRejected(s, cs, k) ==
    /\ k <= Len(cs)
    /\ ~FieldAccepted(s, cs, k)
    /\ \A j \in 1..(k - 1) : FieldAccepted(s, cs, j)

C12_DecoderErrorLoggedAndPropagated ==
    /\ Parsed =>
         \A k \in 1..NumFields(chars) :
            FirstRejected(chars, column_schemas, k) =>
               LET col == column_schemas[k]
                   text == FieldText(chars, k)
               IN  /\ result = FromFromTextError(try_from_str(col.typ, text).err)
                   /\ log = <<[name |-> col.name, typ |-> col.typ, text |-> text]>>
                   /\ decoder_calls = ExpectedCalls(chars, column_schemas, k)
                   /\ Len(values) = k - 1
    /\ pc \in {"start", "scan", "field"} =>
         /\ log = <<>>
         /\ \A i \in 1..Len(decoder_calls) :
               try_from_str(decoder_calls[i][1], decoder_calls[i][2]).ok

\* The second of three fields is rejected: the event names column 2, and the
\* third field, which has no column, does not turn the error into
\* NumColsMismatch.
C12_Witness ==
    /\ Parsed
    /\ NumFields(chars) = 3
    /\ Len(column_schemas) = 2
    /\ FirstRejected(chars, column_schemas, 2)
    /\ Len(log) = 1
    /\ log[1].name = 2
    /\ result.err = "InvalidValue"

=============================================================================
